---------------------------- MODULE Spec2Model ----------------------------
(***************************************************************************)
(* The entropy computation of almanack over the diff of two commits:       *)
(*   git.get_loc_changed                     (src/almanack/git.py)         *)
(*   calculate_normalized_entropy                                          *)
(*   calculate_aggregate_entropy  (metrics/entropy/calculate_entropy.py)   *)
(*                                                                         *)
(* The repository is represented by `diff`, the sequence of patches that   *)
(* repo.diff(source_commit, target_commit) yields.  A patch carries the    *)
(* path of its new file and its hunks; a hunk is the sequence of its       *)
(* lines' origins.                                                         *)
(*                                                                         *)
(* Python floats are fixed-point numbers with FracBits fractional bits:    *)
(* the float x is the integer x * Scale.  Division and multiplication      *)
(* truncate, math.log2 is the binary logarithm computed digit by digit.    *)
(* A Python expression evaluates to a record [exc, val]: exc is "None"     *)
(* and val the value, or exc names the exception it raises.                *)
(*                                                                         *)
(* Around them the module holds get_api_data (metrics/remote.py), the      *)
(* score and the commands of cli.py, the commit data of compute_repo_data, *)
(* process_repo_for_analysis with its temporary directories, the commands  *)
(* of processing_repositories.py with the reports of reporting/report.py,  *)
(* and the queries get_remote_url, read_file and get_github_build_metrics. *)
(* Each has its specification; the variables of the others stay idle.      *)
(***************************************************************************)
EXTENDS Integers, Sequences, FiniteSets, TLC

\* ------------------------------------------------------------------ bounds

\* the longest list of requested file names
MaxNames == 3

\* the most hunks of a patch
MaxHunks == 1

\* fractional bits of the fixed-point representation of a float
FracBits == 12

\* entries of the table of metrics
MaxEntries == 2

\* commits of a repository
MaxCommits == 3

\* threads that call the entropy functions
NumThreads == 2

\* the largest count, in absolute value, of a malformed change map
MaxCount == 2

\* the latest commit time, and the commit times of one calendar day
MaxTime == 5
TimesPerDay == 2

\* the most ".git" suffixes at the end of the URL of a remote
MaxGitSuffixes == 2

\* the most workflow runs of a response
MaxRuns == 4

\* ------------------------------------------------------------------ inputs

\* the file paths of the repository
Paths == <<"a.md", "b.md", "c.md">>

PathSet == {Paths[i] : i \in DOMAIN Paths}

\* line.origin: added, removed, context
Origins == {"+", "-", " "}

\* hunk.lines, as the origins of the lines: a line added after a context
\* line, and a line replaced between two context lines
Hunks == {<<" ", "+">>, <<" ", "-", "+", " ">>}

\* patch.hunks: none for a patch without text changes (a binary file, a mode
\* change)
HunkSeqs == UNION {[1..n -> Hunks] : n \in 0..MaxHunks}

\* the patches of a diff, in the order of their paths, one delta per path:
\* the paths in `touched`, from the i-th path on
RECURSIVE DiffOf(_, _, _)
DiffOf(touched, hunksOf, i) ==
    IF i > Len(Paths) THEN <<>>
    ELSE IF Paths[i] \in touched
         THEN <<[new_file_path |-> Paths[i], hunks |-> hunksOf[Paths[i]]]>>
              \o DiffOf(touched, hunksOf, i + 1)
         ELSE DiffOf(touched, hunksOf, i + 1)

Diffs ==
    UNION {{DiffOf(touched, hunksOf, 1) : hunksOf \in [touched -> HunkSeqs]}
           : touched \in SUBSET PathSet}

\* the lines add_LOC writes to the files of the test repositories
HighCodeChange == 20
MediumCodeChange == 10
LowCodeChange == 5

\* the hunk of a file add_LOC has rewritten with n lines
FixtureHunk(n) == [i \in 1..n |-> "+"]

\* the diffs between the two commits of a test repository: each file is left
\* alone or rewritten with one of the three contents
FixtureDiffs ==
    LET contents == {<<FixtureHunk(n)>> :
                        n \in {HighCodeChange, MediumCodeChange, LowCodeChange}}
    IN  UNION {{DiffOf(touched, hunksOf, 1) : hunksOf \in [touched -> contents]}
               : touched \in SUBSET PathSet}

\* 3_file_repo: file_1.md, file_2.md, file_3.md with the high, the medium and
\* the low change
ThreeFileRepoDiff ==
    <<[new_file_path |-> Paths[1], hunks |-> <<FixtureHunk(HighCodeChange)>>],
      [new_file_path |-> Paths[2], hunks |-> <<FixtureHunk(MediumCodeChange)>>],
      [new_file_path |-> Paths[3], hunks |-> <<FixtureHunk(LowCodeChange)>>]>>

\* 1_file_repo: file_1.md with the low change
OneFileRepoDiff ==
    <<[new_file_path |-> Paths[1], hunks |-> <<FixtureHunk(LowCodeChange)>>]>>

\* the diffs and the file sets of the two test repositories
RepoDiffs == {ThreeFileRepoDiff, OneFileRepoDiff}
RepoFileSets == {Paths, <<Paths[1]>>}

\* the lists of file names a caller may request (order and repetition free)
FileLists == UNION {[1..n -> PathSet] : n \in 0..MaxNames}

\* ------------------------------------------------------------------ floats

Scale == 2 ^ FracBits

Ok(v) == [exc |-> "None", val |-> v]

Raise(e) == [exc |-> e, val |-> 0]

\* int / int
TrueDiv(a, b) ==
    IF b = 0 THEN Raise("ZeroDivisionError") ELSE Ok((a * Scale) \div b)

\* float * float, truncated towards zero
FMul(x, y) ==
    IF x * y >= 0 THEN (x * y) \div Scale ELSE -(((-x) * y) \div Scale)

\* float / int
FDivInt(x, n) ==
    IF n = 0 THEN Raise("ZeroDivisionError")
    ELSE Ok(IF x >= 0 THEN x \div n ELSE -((-x) \div n))

\* the exponent e of x > 0: 2^e <= x / Scale < 2^(e+1)
RECURSIVE Exponent(_)
Exponent(x) ==
    IF x >= 2 * Scale THEN 1 + Exponent(x \div 2)
    ELSE IF x < Scale THEN Exponent(2 * x) - 1
    ELSE 0

\* x scaled into [Scale, 2 * Scale)
RECURSIVE Mantissa(_)
Mantissa(x) ==
    IF x >= 2 * Scale THEN Mantissa(x \div 2)
    ELSE IF x < Scale THEN Mantissa(2 * x)
    ELSE x

\* the fractional bits i..FracBits of log2(m / Scale), m in [Scale, 2 * Scale):
\* squaring m doubles its logarithm, and the logarithm's next bit is 1 when
\* the square reaches 2
RECURSIVE Log2Frac(_, _)
Log2Frac(m, i) ==
    IF i > FracBits THEN 0
    ELSE LET sq == (m * m) \div Scale
         IN  IF sq >= 2 * Scale
             THEN 2 ^ (FracBits - i) + Log2Frac(sq \div 2, i + 1)
             ELSE Log2Frac(sq, i + 1)

\* math.log2(x): ValueError for x <= 0
Log2(x) ==
    IF x <= 0 THEN Raise("ValueError")
    ELSE Ok(Exponent(x) * Scale + Log2Frac(Mantissa(x), 1))

\* ------------------------------------------------------------------ dicts

EmptyDict == [k \in {} |-> 0]

\* d[k] = v
SetItem(d, k, v) == [x \in DOMAIN d \cup {k} |-> IF x = k THEN v ELSE d[x]]

\* x in list
InList(x, list) == \E i \in DOMAIN list : list[i] = x

\* sum(d.values())
RECURSIVE SumValues(_)
SumValues(d) ==
    IF DOMAIN d = {} THEN 0
    ELSE LET k == CHOOSE x \in DOMAIN d : TRUE
         IN  d[k] + SumValues([x \in DOMAIN d \ {k} |-> d[x]])


\* ------------------------------------------------------------------ git.py

\* the lines of one hunk whose origin is `origin`, from line i on
RECURSIVE CountOrigin(_, _, _)
CountOrigin(lines, origin, i) ==
    IF i > Len(lines) THEN 0
    ELSE (IF lines[i] = origin THEN 1 ELSE 0) + CountOrigin(lines, origin, i + 1)

\* additions, after the loop over patch.hunks from hunk i on
RECURSIVE Additions(_, _)
Additions(hunks, i) ==
    IF i > Len(hunks) THEN 0
    ELSE CountOrigin(hunks[i], "+", 1) + Additions(hunks, i + 1)

\* deletions, after the loop over patch.hunks from hunk i on
RECURSIVE Deletions(_, _)
Deletions(hunks, i) ==
    IF i > Len(hunks) THEN 0
    ELSE CountOrigin(hunks[i], "-", 1) + Deletions(hunks, i + 1)

\* mutant: the deletions are forgotten
LinesChangedAdditionsOnly(patch) == Additions(patch.hunks, 1)

\* lines_changed = additions + deletions
LinesChanged(patch) == Additions(patch.hunks, 1) + Deletions(patch.hunks, 1)

\* mutant: every patch of the diff is counted, requested or not
PatchChangesUnfiltered(changes, patch, file_names) ==
    SetItem(changes, patch.new_file_path, LinesChanged(patch))

\* the body of the loop over the diff: the patch is counted when the path of
\* its new file is one of the requested names
PatchChanges(changes, patch, file_names) ==
    IF InList(patch.new_file_path, file_names)
    THEN SetItem(changes, patch.new_file_path, LinesChanged(patch))
    ELSE changes

\* the loop over the diff, from patch i on
RECURSIVE LocChangedFrom(_, _, _, _)
LocChangedFrom(d, file_names, i, changes) ==
    IF i > Len(d) THEN changes
    ELSE LocChangedFrom(d, file_names, i + 1,
                        PatchChanges(changes, d[i], file_names))

get_loc_changed(d, file_names) == LocChangedFrom(d, file_names, 1, EmptyDict)

\* ------------------------------------------------------------------ calculate_entropy.py

\* mutant: the share is smoothed, p = c / (total_changes + 1)
ShannonTermSmoothed(c, total_changes) ==
    LET p == TrueDiv(c, total_changes + 1)
    IN  IF p.exc # "None" THEN p
        ELSE LET l == Log2(p.val)
             IN  IF l.exc # "None" THEN l
                 ELSE Ok(-FMul(p.val, l.val))

\* -(p * math.log2(p)) for p = c / total_changes, whatever c and total_changes
ShannonTerm(c, total_changes) ==
    LET p == TrueDiv(c, total_changes)
    IN  IF p.exc # "None" THEN p
        ELSE LET l == Log2(p.val)
             IN  IF l.exc # "None" THEN l
                 ELSE Ok(-FMul(p.val, l.val))

\* mutant: the term is also divided by the number of files
FileEntropyPerFile(loc_changes, file_name, total_changes) ==
    IF loc_changes[file_name] # 0 /\ total_changes # 0
    THEN LET t == ShannonTerm(loc_changes[file_name], total_changes)
         IN  IF t.exc # "None" THEN t
             ELSE FDivInt(t.val, Cardinality(DOMAIN loc_changes))
    ELSE Ok(0)

\* mutant: only the total is tested, a file without changes is not
FileEntropyZeroCountUnchecked(loc_changes, file_name, total_changes) ==
    IF total_changes # 0
    THEN ShannonTerm(loc_changes[file_name], total_changes)
    ELSE Ok(0)

\* mutant: no test at all before the division
FileEntropyUnguarded(loc_changes, file_name, total_changes) ==
    ShannonTerm(loc_changes[file_name], total_changes)

\* mutant: the sign is forgotten, p * math.log2(p)
FileEntropyNotNegated(loc_changes, file_name, total_changes) ==
    IF loc_changes[file_name] # 0 /\ total_changes # 0
    THEN LET t == ShannonTerm(loc_changes[file_name], total_changes)
         IN  IF t.exc # "None" THEN t ELSE Ok(-t.val)
    ELSE Ok(0)

\* mutant: the weight p is forgotten, -math.log2(p)
FileEntropyUnweighted(loc_changes, file_name, total_changes) ==
    IF loc_changes[file_name] # 0 /\ total_changes # 0
    THEN LET p == TrueDiv(loc_changes[file_name], total_changes)
         IN  IF p.exc # "None" THEN p
             ELSE LET l == Log2(p.val)
                  IN  IF l.exc # "None" THEN l ELSE Ok(-l.val)
    ELSE Ok(0)

\* mutant: the condition is inverted
FileEntropyGuardInverted(loc_changes, file_name, total_changes) ==
    IF loc_changes[file_name] # 0 /\ total_changes # 0
    THEN Ok(0)
    ELSE ShannonTerm(loc_changes[file_name], total_changes)

\* the value of one file in the dict comprehension:
\*   -((c / total) * math.log2(c / total)) if c != 0 and total != 0 else 0.0
FileEntropy(loc_changes, file_name, total_changes) ==
    IF loc_changes[file_name] # 0 /\ total_changes # 0
    THEN ShannonTerm(loc_changes[file_name], total_changes)
    ELSE Ok(0)

\* mutant: only the files with changes get an entry
EntropyDictOfChangedFiles(loc_changes, total_changes) ==
    LET changed == {f \in DOMAIN loc_changes : loc_changes[f] # 0}
    IN  Ok([f \in changed |->
                FileEntropy(loc_changes, f, total_changes).val])

\* the dict comprehension over the keys of loc_changes
EntropyDict(loc_changes, total_changes) ==
    LET terms == [f \in DOMAIN loc_changes |->
                      FileEntropy(loc_changes, f, total_changes)]
        raised == {f \in DOMAIN terms : terms[f].exc # "None"}
    IN  IF raised # {}
        THEN Raise(terms[CHOOSE f \in raised : TRUE].exc)
        ELSE Ok([f \in DOMAIN terms |-> terms[f].val])

calculate_normalized_entropy(d, file_names) ==
    LET loc == get_loc_changed(d, file_names)
        total == SumValues(loc)
        entropy == EntropyDict(loc, total)
    IN  [loc_changes |-> loc, total_changes |-> total,
         exc |-> entropy.exc,
         entropy_calculation |->
             IF entropy.exc = "None" THEN entropy.val ELSE EmptyDict]

\* mutant: the sum is not divided by the number of files
NormalizedTotalEntropyUndivided(total_entropy, num_files) ==
    IF num_files > 0 THEN Ok(total_entropy) ELSE Ok(0)

\* mutant: floor division, total_entropy // num_files
NormalizedTotalEntropyFloored(total_entropy, num_files) ==
    IF num_files > 0
    THEN Ok(((total_entropy \div Scale) \div num_files) * Scale)
    ELSE Ok(0)

\* total_entropy / num_files if num_files > 0 else 0.0
NormalizedTotalEntropy(total_entropy, num_files) ==
    IF num_files > 0 THEN FDivInt(total_entropy, num_files) ELSE Ok(0)

\* mutant: the number of keys of the entropy dict
NumFilesOfDict(entropy_calculation, file_names) ==
    Cardinality(DOMAIN entropy_calculation)

\* num_files = len(file_names)
NumFiles(entropy_calculation, file_names) == Len(file_names)

\* mutant: the changed lines are summed, not the entropies
TotalEntropyOfChanges(r) == SumValues(r.loc_changes) * Scale

\* total_entropy = sum(entropy_calculation.values())
TotalEntropy(r) == SumValues(r.entropy_calculation)

calculate_aggregate_entropy(d, file_names) ==
    LET r == calculate_normalized_entropy(d, file_names)
        total_entropy == TotalEntropy(r)
        num_files == NumFiles(r.entropy_calculation, file_names)
        normalized == NormalizedTotalEntropy(total_entropy, num_files)
    IN  IF r.exc # "None"
        THEN [r EXCEPT !.entropy_calculation = EmptyDict] @@
             [normalized_total_entropy |-> 0]
        ELSE [r EXCEPT !.exc = normalized.exc] @@
             [normalized_total_entropy |-> normalized.val]

\* ------------------------------------------------------------------ calls of threads

Threads == 1..NumThreads

\* the locals of one call of calculate_aggregate_entropy, with those of the
\* calls it makes; `concurrent` records that another call was running at one
\* of the steps of this one
IdleFrame ==
    [pc |-> "idle", diff |-> <<>>, file_names |-> <<>>, i |-> 1,
     changes |-> EmptyDict, total_changes |-> 0,
     entropy_calculation |-> EmptyDict, normalized_total_entropy |-> 0,
     exc |-> "None", concurrent |-> FALSE]

\* mutant: one dict of the module, which the calls of all the threads fill
ChangesOfModule(fs, t) ==
    LET keys == UNION {DOMAIN fs[u].changes : u \in DOMAIN fs}
    IN  [k \in keys |->
            fs[CHOOSE u \in DOMAIN fs : k \in DOMAIN fs[u].changes].changes[k]]

\* changes: the dict the call of thread t has created and fills
Changes(fs, t) == fs[t].changes

\* mutant: one position in the diff, kept from call to call
PatchIndexOfModule(fs, t) ==
    CHOOSE i \in {fs[u].i : u \in DOMAIN fs} :
        \A u \in DOMAIN fs : fs[u].i <= i

\* the position of the call of thread t in its loop over the diff
PatchIndex(fs, t) == fs[t].i

\* another thread is inside a call
OtherRunning(fs, t) ==
    \E u \in DOMAIN fs \ {t} : fs[u].pc \notin {"idle", "done"}

\* ------------------------------------------------------------------ remote.py

\* max_retries: the number of attempts for rate limit errors
MaxRetries == 100

\* base_backoff: the base backoff time in seconds
BaseBackoff == 5

\* the status codes of the responses: success, forbidden, server error
StatusCodes == {200, 403, 500}

\* what requests.get does: it returns a response, with a status code and with
\* or without the header X-RateLimit-Remaining, or raises a
\* requests.RequestException that is no HTTPError
Responses ==
    [exc : {"None"}, status_code : StatusCodes, rate_limit_header : BOOLEAN]
    \cup [exc : {"ConnectionError", "Timeout"}, status_code : {0},
          rate_limit_header : {FALSE}]

NoResponse == [exc |-> "None", status_code |-> 0, rate_limit_header |-> FALSE]

\* response.raise_for_status() raises requests.HTTPError
RaisesHTTPError(r) == r.exc = "None" /\ r.status_code >= 400

\* mutant: every 403 is taken for the rate limit error
IsRateLimitAnyForbidden(r) == r.status_code = 403

\* the rate limit error: 403 with a rate limit header
IsRateLimit(r) == r.status_code = 403 /\ r.rate_limit_header

\* backoff = base_backoff * (attempt - 1)
Backoff(n) == BaseBackoff * (n - 1)

\* what get_api_data hands to its caller: a value, or an exception
Returned(v) == [exc |-> "None", val |-> v]

NoResult == Returned("none")

\* ------------------------------------------------------------------ data.py

\* a Python value that may be None
PyNone == [none |-> TRUE, val |-> 0]
Some(v) == [none |-> FALSE, val |-> v]

\* the entries of the table: what compute_almanack_score reads of them. The
\* result of an entry is True, False or None; of the result of an entry of
\* another type than bool no branch reads more
Entries ==
    [result_type : {"bool", "int"},
     sustainability_correlation : {-1, 0, 1},
     result : {"True", "False", "None"}]

Tables == UNION {[1..n -> Entries] : n \in 0..MaxEntries}

\* the entry is one of the boolean metrics with a sustainability direction
Considered(item) ==
    item.result_type = "bool" /\ item.sustainability_correlation # 0

\* mutant: not None is counted as a pass
BoolResultNoneUnchecked(item) ==
    IF item.sustainability_correlation = 1
    THEN (IF item.result = "True" THEN 1 ELSE 0)
    ELSE (IF item.result = "True" THEN 0 ELSE 1)

\* what is appended to bool_results for a considered entry:
\*   int(result) if result is not None else 0, correlation 1
\*   int(not result) if result is not None else 0, correlation -1
BoolResult(item) ==
    IF item.sustainability_correlation = 1
    THEN (IF item.result # "None"
          THEN (IF item.result = "True" THEN 1 ELSE 0) ELSE 0)
    ELSE (IF item.result # "None"
          THEN (IF item.result = "True" THEN 0 ELSE 1) ELSE 0)

\* bool_results, after the loop over the table from entry i on
RECURSIVE BoolResults(_, _)
BoolResults(table, i) ==
    IF i > Len(table) THEN <<>>
    ELSE (IF Considered(table[i]) THEN <<BoolResult(table[i])>> ELSE <<>>)
         \o BoolResults(table, i + 1)

\* sum(bool_results), from element i on
RECURSIVE SumFrom(_, _)
SumFrom(seq, i) == IF i > Len(seq) THEN 0 ELSE seq[i] + SumFrom(seq, i + 1)

compute_almanack_score(table) ==
    LET bool_results == BoolResults(table, 1)
    IN  [numerator |->
             IF bool_results # <<>> THEN Some(SumFrom(bool_results, 1))
             ELSE PyNone,
         denominator |->
             IF bool_results # <<>> THEN Some(Len(bool_results)) ELSE PyNone,
         score |->
             IF bool_results # <<>>
             THEN Some(TrueDiv(SumFrom(bool_results, 1), Len(bool_results)).val)
             ELSE PyNone]

\* the entries of the table whose check fails, and the result of the entry
\* repo-almanack-score, the score of the table
gather_failed_almanack_metric_checks(table) ==
    [failed |-> SelectSeq(table,
                          LAMBDA item : Considered(item) /\ BoolResult(item) = 0),
     score |-> compute_almanack_score(table)]

\* the histories of a repository: the commit times of its commits, the root
\* first and HEAD last, each commit the parent of the next. A commit time is
\* what the committer's clock, or GIT_COMMITTER_DATE, said
Histories == UNION {[1..n -> 0..MaxTime] : n \in 1..MaxCommits}

\* the parents of the c-th commit
Parents(c) == IF c > 1 THEN {c - 1} ELSE {}

\* repo.walk(head.id, GIT_SORT_TIME): of the pending commits the one with the
\* latest commit time is next, and its parents become pending
RECURSIVE Walk(_, _, _)
Walk(commit_times, pending, walked) ==
    IF pending = {} THEN walked
    ELSE LET c == CHOOSE x \in pending :
                      \A y \in pending : commit_times[y] <= commit_times[x]
         IN  Walk(commit_times, (pending \ {c}) \cup Parents(c),
                  Append(walked, c))

\* the commits from HEAD on
get_commits(commit_times) == Walk(commit_times, {Len(commit_times)}, <<>>)

\* datetime.fromtimestamp(commit.commit_time).date()
DateOf(commit_time) == commit_time \div TimesPerDay

\* (most_recent_commit_date - first_commit_date).days + 1
DaysOfDevelopment(first_commit_date, most_recent_commit_date) ==
    (most_recent_commit_date - first_commit_date) + 1

\* commits_count / days_of_development
CommitsPerDay(commits_count, days_of_development) ==
    IF days_of_development >= 0
    THEN TrueDiv(commits_count, days_of_development)
    ELSE Ok(-TrueDiv(commits_count, -days_of_development).val)

\* compute_repo_data: the commit data of the dictionary it returns
compute_repo_data(commit_times) ==
    LET commits == get_commits(commit_times)
        most_recent_commit == commits[1]
        first_commit == commits[Len(commits)]
        first_commit_date == DateOf(commit_times[first_commit])
        most_recent_commit_date == DateOf(commit_times[most_recent_commit])
        days_of_development ==
            DaysOfDevelopment(first_commit_date, most_recent_commit_date)
        commits_per_day == CommitsPerDay(Len(commits), days_of_development)
    IN  [exc |-> commits_per_day.exc,
         repo_commits |-> Len(commits),
         repo_days_of_development |-> days_of_development,
         repo_commits_per_day |-> commits_per_day.val]

NoRepoData ==
    [exc |-> "None", repo_commits |-> 0, repo_days_of_development |-> 0,
     repo_commits_per_day |-> 0]

\* a call with positional arguments of a function none of whose parameters
\* has a default: each parameter is bound to its argument, and a call with
\* fewer or more arguments raises TypeError
Bind(params, args) ==
    IF Len(args) = Len(params)
    THEN Ok([i \in DOMAIN params |-> args[i]])
    ELSE Raise("TypeError")

\* the paths of the files of the patches of repo.diff(source, target)
EditedFiles(d) == {d[i].new_file_path : i \in DOMAIN d}

\* list(file_names): the lists a set may be turned into
ListsOf(S) ==
    {l \in [1..Cardinality(S) -> S] : {l[i] : i \in DOMAIN l} = S}

\* def get_edited_files(repo, source_commit, target_commit), called with
\* `args`, when list(file_names) yields `names`
get_edited_files(args, names) ==
    LET bound == Bind(<<"repo", "source_commit", "target_commit">>, args)
    IN  IF bound.exc # "None" THEN Raise(bound.exc) ELSE Ok(names)

\* the temporary directories: the one process_repo_for_analysis makes and
\* the one clone_repository makes
AnalysisTempDir == "temp_dir"
CloneTempDir == "clone_temp_dir"

\* (most_recent_commit.commit_time - first_commit.commit_time) // (24 * 3600)
TimeOfExistence(first_commit_time, most_recent_commit_time) ==
    (most_recent_commit_time - first_commit_time) \div TimesPerDay

\* the tuple of the except clause
AnalysisError(e) ==
    <<PyNone, PyNone, PyNone, PyNone, [error |-> e]>>

\* process_repo_for_analysis from the retrieval of the commits on: the tuple
\* of the try statement, or of the except clause when get_edited_files or
\* calculate_aggregate_entropy raises
AnalysisOfClone(commit_times, d, names) ==
    LET commits == get_commits(commit_times)
        returned(first_commit_time, most_recent_commit_time, aggregate) ==
            IF aggregate.exc # "None" THEN AnalysisError(aggregate.exc)
            ELSE <<aggregate.normalized_total_entropy,
                   DateOf(first_commit_time),
                   DateOf(most_recent_commit_time),
                   TimeOfExistence(first_commit_time,
                                   most_recent_commit_time)>>
        analysed(first_commit, most_recent_commit, file_names_) ==
            IF file_names_.exc # "None" THEN AnalysisError(file_names_.exc)
            ELSE returned(commit_times[first_commit],
                          commit_times[most_recent_commit],
                          calculate_aggregate_entropy(d, file_names_.val))
    IN  analysed(commits[Len(commits)], commits[1],
                 get_edited_files(<<"repo", "commits">>, names))

\* compute_pr_data: the dictionary of the comparison of the branches, whose
\* commits differ by `d`, or the dictionary of the except clause when a
\* branch is not found (repo.branches.local.get yields None, and
\* pr_ref.target raises AttributeError). The dates of the commits are
\* represented by their names
compute_pr_data(found, d, names) ==
    IF found
    THEN ("pr_branch" :> "pr") @@ ("main_branch" :> "main") @@
         ("total_entropy_introduced" :>
              calculate_aggregate_entropy(d, names).normalized_total_entropy) @@
         ("number_of_files_changed" :> Len(names)) @@
         ("file_level_entropy" :>
              calculate_normalized_entropy(d, names).entropy_calculation) @@
         ("commits" :> <<"main_commit_date", "pr_commit_date">>)
    ELSE ("pr_branch" :> "pr") @@ ("main_branch" :> "main") @@
         ("error" :> "AttributeError")

\* compute_repo_data: of the entries of the dictionary, all of whose keys
\* begin with repo-, the path and the two entropy entries
RepoEntropyData(normalized_total_entropy, file_entropy_of_files) ==
    ("repo-path" :> "repo_path") @@
    ("repo-agg-info-entropy" :> normalized_total_entropy) @@
    ("repo-file-info-entropy" :> file_entropy_of_files)

\* ------------------------------------------------------------------ report.py

\* the keys repo_report and pr_report read, in the order of the reads
ReportKeys(command) ==
    IF command = "process_repo_entropy"
    THEN <<"repo_path", "total_normalized_entropy", "number_of_commits",
           "number_of_files", "time_range_of_commits", "file_level_entropy">>
    ELSE <<"pr_branch", "main_branch", "total_entropy_introduced",
           "number_of_files_changed", "entropy_per_file", "commits">>

\* repo_report, pr_report: data[key] raises KeyError for a key the
\* dictionary lacks; the report is made of the values read
Report(command, data) ==
    LET keys == ReportKeys(command)
    IN  IF \E i \in DOMAIN keys : keys[i] \notin DOMAIN data
        THEN Raise("KeyError")
        ELSE Ok([i \in DOMAIN keys |-> data[keys[i]]])

\* ------------------------------------------------------------------ processing_repositories.py

\* mutant: only the directory is looked for
PathIsRepositoryDirectoryOnly(path) == path.exists

\* not (not repo_path.exists() or not (repo_path / ".git").exists())
PathIsRepository(path) == ~(~path.exists \/ ~path.git)

\* mutant: the second call takes the commit HEAD points to now
DiffOfHead(by_id, of_head) == of_head

\* repo.diff(source_commit, target_commit) of the commits
\* repo.revparse_single finds by the ids handed to the extractor, whatever
\* HEAD points to
DiffOfCommits(by_id, of_head) == by_id

\* ------------------------------------------------------------------ git.py, the queries

\* repo.remotes: the remotes upstream and origin and two others, each with
\* its URL. A URL is its scheme, its host, its path (here the name of the
\* remote) and the ".git" suffixes at its end: "https://github.com/fork.git"
\* is [scheme |-> "https", netloc |-> "github.com", path |-> "fork",
\* git |-> 1], and "git@github.com:fork.git" has neither scheme nor host.
\* Of the orders of the config, the two of the other remotes are taken
RemoteLists ==
    LET urls(name) ==
            {[scheme |-> h[1], netloc |-> h[2], path |-> name, git |-> g] :
                h \in {<<"https", "github.com">>, <<"", "">>},
                g \in 0..MaxGitSuffixes}
        of(name) ==
            {<<>>} \cup {<<[name |-> name, url |-> u]>> : u \in urls(name)}
        lists ==
            {a \o b \o c \o d :
                a \in of("upstream"), b \in of("origin"),
                c \in of("fork") \cup of("mirror"),
                d \in of("fork") \cup of("mirror")}
    IN  {l \in lists :
            \A i, j \in DOMAIN l : l[i].name = l[j].name => i = j}

\* mutant: the URL is returned as the remote has it
RemoveSuffixNever(url) == url

\* url.removesuffix(".git")
RemoveSuffix(url) == IF url.git > 0 THEN [url EXCEPT !.git = @ - 1] ELSE url

get_remote_url(repo_remotes) ==
    LET valid(url) == url.scheme \in {"http", "https", "ssh"} /\ url.netloc # ""
        \* repo.remotes[name], or the KeyError that is passed over
        named(name) ==
            {i \in DOMAIN repo_remotes : repo_remotes[i].name = name}
        of(name) ==
            IF named(name) = {} THEN PyNone
            ELSE LET remote_url_ ==
                         RemoveSuffix(
                             repo_remotes[CHOOSE i \in named(name) : TRUE].url)
                 IN  IF valid(remote_url_) THEN Some(remote_url_) ELSE PyNone
        others == {i \in DOMAIN repo_remotes : valid(repo_remotes[i].url)}
    IN  IF ~of("upstream").none THEN of("upstream")
        ELSE IF ~of("origin").none THEN of("origin")
        ELSE IF others # {}
        THEN Some(RemoveSuffix(
                 repo_remotes[CHOOSE i \in others :
                                  \A j \in others : i <= j].url))
        ELSE PyNone

\* the trees of HEAD: a path is its name and its extensions, and has a blob,
\* a tree or nothing. The data of a blob are its bytes, here an empty file,
\* a text and a file with a NUL byte, for which charset-normalizer finds no
\* encoding
Trees ==
    LET paths == {<<"README">>, <<"README", ".md">>, <<"LICENSE", ".txt">>}
        objects ==
            {[type |-> "tree", data |-> <<>>]} \cup
            {[type |-> "blob", data |-> d] :
                d \in {<<>>, <<"#", "#">>, <<"NUL">>}}
    IN  UNION {[present -> objects] : present \in SUBSET paths}

\* find_file with case_insensitive=False: the entry of the first of
\* filepath + ext that the tree has
find_file(repo_tree, filepath) ==
    LET extensions == <<<<".md">>, <<".txt">>, <<".rtf">>, <<".rst">>, <<>>>>
        found == {i \in DOMAIN extensions :
                     filepath \o extensions[i] \in DOMAIN repo_tree}
    IN  IF found = {} THEN PyNone
        ELSE Some(filepath \o
                  extensions[CHOOSE i \in found : \A j \in found : i <= j])

\* detect_encoding: the encoding of result.best()
detect_encoding(blob_data) ==
    IF blob_data = <<>> THEN Raise("ValueError")
    ELSE IF \E i \in DOMAIN blob_data : blob_data[i] = "NUL"
    THEN Raise("ValueError")
    ELSE Ok("utf_8")

\* read_file: a tree has no attribute data, and the AttributeError is
\* caught; the str is the bytes decoded with the encoding detected
read_file(repo_tree, entry, filepath) ==
    LET found == IF entry.none /\ ~filepath.none
                 THEN find_file(repo_tree, filepath.val)
                 ELSE entry
    IN  IF entry.none /\ filepath.none THEN Raise("ValueError")
        ELSE IF found.none THEN Ok(PyNone)
        ELSE LET blob == repo_tree[found.val]
             IN  IF blob.type # "blob" THEN Ok(PyNone)
                 ELSE IF detect_encoding(blob.data).exc # "None"
                 THEN Raise(detect_encoding(blob.data).exc)
                 ELSE Ok(Some([encoding |-> detect_encoding(blob.data).val,
                               str |-> blob.data]))

\* github_response.get("workflow_runs"): the conclusions of the runs; no
\* runs when get_api_data has returned {}
WorkflowRuns ==
    UNION {[1..n -> {"success", "failure", "cancelled"}] : n \in 0..MaxRuns}

\* get_github_build_metrics for the URL get_remote_url has returned, whose
\* path has the two parts owner and repository, and for the workflow runs of
\* the response
get_github_build_metrics(repo_url, workflow_runs) ==
    LET total_runs == Len(workflow_runs)
        successful_runs ==
            Cardinality({i \in DOMAIN workflow_runs :
                            workflow_runs[i] = "success"})
    IN  IF repo_url.none \/ repo_url.val.netloc # "github.com" THEN EmptyDict
        ELSE IF workflow_runs = <<>> THEN EmptyDict
        ELSE ("success_ratio" :> TrueDiv(successful_runs, total_runs).val) @@
             ("total_runs" :> total_runs) @@
             ("successful_runs" :> successful_runs) @@
             ("failing_runs" :> total_runs - successful_runs)

\* compute_repo_data: the entries of the workflow runs, each
\* gh_workflows_data.get(key, None)
WorkflowEntries(data) ==
    LET get(key) == IF key \in DOMAIN data THEN Some(data[key]) ELSE PyNone
    IN  ("repo-gh-workflow-success-ratio" :> get("success_ratio")) @@
        ("repo-gh-workflow-succeeding-runs" :> get("total_runs")) @@
        ("repo-gh-workflow-failing-runs" :> get("successful_runs")) @@
        ("repo-gh-workflow-queried-total" :> get("failing_runs"))

\* ------------------------------------------------------------------ cli.py

\* sys.exit(n)
Exit(n) == [exc |-> "None", val |-> n]

\* an exception nobody catches ends the interpreter with the status 1
Uncaught(e) == [exc |-> e, val |-> 1]

\* mutant: the status of a failure is 1
CheckExitStatusOne(score_metrics) ==
    IF score_metrics.score.none THEN Uncaught("TypeError")
    ELSE IF score_metrics.score.val # Scale THEN Exit(1)
    ELSE Exit(0)

\* check, from the summary line on: 100 * None raises TypeError; a score
\* other than 1 ends with sys.exit(2), the score 1 with sys.exit(0)
CheckExitStatus(score_metrics) ==
    IF score_metrics.score.none THEN Uncaught("TypeError")
    ELSE IF score_metrics.score.val # Scale THEN Exit(2)
    ELSE Exit(0)

\* table: sys.exit(0)
TableExitStatus(table) == Exit(0)

\* ------------------------------------------------------------------ state

VARIABLES
    diff,                      \* repo.diff(source_commit, target_commit)
    pc,                        \* "idle", or the function that has returned
    file_names,                \* the argument of the call
    loc_changes,               \* locals and results of the call
    total_changes,
    entropy_calculation,
    normalized_total_entropy,
    exception,                 \* "None", or the exception the call raised
    frames,                    \* the locals of the calls of the threads
    api_pc,                    \* get_api_data: "idle", "request", "returned"
    attempt,                   \* the attempt of the loop of get_api_data
    response,                  \* the outcome of the last requests.get
    backoff,                   \* the seconds of the last time.sleep
    api_result,                \* what get_api_data returned
    almanack_table,            \* the table of metrics of the repository
    cli_pc,                    \* "idle", or the command or function done
    almanack_score,            \* the result of compute_almanack_score
    exit_status,               \* the exit status of the command
    history,                   \* the commits of the repository, root first
    repo_pc,                   \* compute_repo_data: "idle" or "done"
    repo_data,                 \* the commit data compute_repo_data returned
    an_pc,                     \* process_repo_for_analysis: the statement done
    temp_dirs,                 \* the temporary directories that exist
    repo_path,                 \* the path clone_repository returned, if any
    an_result,                 \* the tuple process_repo_for_analysis returned
    ent_command,               \* process_repo_entropy or process_pr_entropy
    ent_pc,                    \* the statement of the command done last
    ent_path,                  \* does repo_path exist, does repo_path/.git
    ent_data,                  \* the keys of the dictionary computed
    ent_exception,             \* "None", or the exception the command raised
    ent_printed,               \* has the report been printed
    query_pc,                  \* "idle", or the query that has returned
    remotes,                   \* repo.remotes, in the order of the config
    remote_url,                \* what get_remote_url returned
    tree,                      \* the tree of HEAD: the object of each path
    read_args,                 \* the arguments entry and filepath
    read_result,               \* what read_file returned or raised
    github_response,           \* what get_api_data returned for the runs
    gh_workflows_data,         \* the result of get_github_build_metrics
    build_entries,             \* the workflow entries of compute_repo_data
    head_diff,                 \* the diff of the first commit and HEAD
    edited_file_names,         \* the result of get_edited_files
    agg_entropy,               \* the result of calculate_aggregate_entropy
    file_entropy               \* the result of calculate_normalized_entropy

entropyVars == <<diff, pc, file_names, loc_changes, total_changes,
                 entropy_calculation, normalized_total_entropy, exception>>

threadVars == <<frames>>

apiVars == <<api_pc, attempt, response, backoff, api_result>>

cliVars == <<almanack_table, cli_pc, almanack_score, exit_status>>

repoVars == <<history, repo_pc, repo_data>>

analysisVars == <<an_pc, temp_dirs, repo_path, an_result>>

\* the commands of processing_repositories.py, and the locals of the
\* compute_repo_data they call
reportVars == <<ent_command, ent_pc, ent_path, ent_data, ent_exception,
                ent_printed, head_diff, edited_file_names, agg_entropy,
                file_entropy>>

\* the functions that query a repository: get_remote_url, read_file,
\* get_github_build_metrics
queryVars == <<query_pc, remotes, remote_url, tree, read_args, read_result,
               github_response, gh_workflows_data, build_entries>>

\* the variables of the entropy functions, of get_api_data, of the commands
\* of cli.py and of the commit data
metricVars == <<entropyVars, threadVars, apiVars, cliVars, repoVars>>

\* the variables of the functions around them
otherVars == <<analysisVars, reportVars, queryVars>>

vars == <<metricVars, otherVars>>

NoCall ==
    /\ pc = "idle"
    /\ file_names = <<>>
    /\ loc_changes = EmptyDict
    /\ total_changes = 0
    /\ entropy_calculation = EmptyDict
    /\ normalized_total_entropy = 0
    /\ exception = "None"

\* no thread calls
NoThread == frames = [t \in Threads |-> IdleFrame]

\* get_api_data is not running
ApiIdle ==
    /\ api_pc = "idle"
    /\ attempt = 0
    /\ response = NoResponse
    /\ backoff = 0
    /\ api_result = NoResult

\* no command is running
NoCommand ==
    /\ cli_pc = "idle"
    /\ almanack_score = compute_almanack_score(<<>>)
    /\ exit_status = Exit(-1)

CliIdle ==
    /\ almanack_table = <<>>
    /\ NoCommand

\* compute_repo_data is not running
NoRepoCall ==
    /\ repo_pc = "idle"
    /\ repo_data = NoRepoData

RepoIdle ==
    /\ history = <<>>
    /\ NoRepoCall

\* none of the functions around them is running
NoOtherCall ==
    /\ an_pc = "idle" /\ repo_path = <<>> /\ an_result = <<>>
    /\ ent_command = "None" /\ ent_pc = "idle" /\ ent_data = <<>>
    /\ ent_exception = "None" /\ ent_printed = FALSE
    /\ query_pc = "idle" /\ remote_url = <<>>
    /\ read_args = <<>> /\ read_result = <<>>
    /\ gh_workflows_data = <<>> /\ build_entries = <<>>
    /\ edited_file_names = <<>> /\ agg_entropy = <<>> /\ file_entropy = <<>>

\* and nothing is there for them to work on
OthersIdle ==
    /\ NoOtherCall
    /\ temp_dirs = {}
    /\ ent_path = [exists |-> FALSE, git |-> FALSE]
    /\ remotes = <<>>
    /\ tree = <<>>
    /\ github_response = <<>>
    /\ head_diff = <<>>

Init ==
    /\ diff \in Diffs
    /\ NoCall
    /\ NoThread /\ ApiIdle /\ CliIdle /\ RepoIdle
    /\ OthersIdle

CallGetLocChanged ==
    /\ pc = "idle"
    /\ \E names \in FileLists :
        /\ file_names' = names
        /\ loc_changes' = get_loc_changed(diff, names)
    /\ pc' = "get_loc_changed"
    /\ UNCHANGED <<diff, total_changes, entropy_calculation,
                   normalized_total_entropy, exception>>
    /\ UNCHANGED <<threadVars, apiVars, cliVars, repoVars, otherVars>>

CallCalculateNormalizedEntropy ==
    /\ pc = "idle"
    /\ \E names \in FileLists :
        LET r == calculate_normalized_entropy(diff, names)
        IN  /\ file_names' = names
            /\ loc_changes' = r.loc_changes
            /\ total_changes' = r.total_changes
            /\ entropy_calculation' = r.entropy_calculation
            /\ exception' = r.exc
    /\ pc' = "calculate_normalized_entropy"
    /\ UNCHANGED <<diff, normalized_total_entropy>>
    /\ UNCHANGED <<threadVars, apiVars, cliVars, repoVars, otherVars>>

CallCalculateAggregateEntropy ==
    /\ pc = "idle"
    /\ \E names \in FileLists :
        LET r == calculate_aggregate_entropy(diff, names)
        IN  /\ file_names' = names
            /\ loc_changes' = r.loc_changes
            /\ total_changes' = r.total_changes
            /\ entropy_calculation' = r.entropy_calculation
            /\ normalized_total_entropy' = r.normalized_total_entropy
            /\ exception' = r.exc
    /\ pc' = "calculate_aggregate_entropy"
    /\ UNCHANGED diff
    /\ UNCHANGED <<threadVars, apiVars, cliVars, repoVars, otherVars>>

\* the call is over: its locals are gone
Return ==
    /\ pc # "idle"
    /\ pc' = "idle"
    /\ file_names' = <<>>
    /\ loc_changes' = EmptyDict
    /\ total_changes' = 0
    /\ entropy_calculation' = EmptyDict
    /\ normalized_total_entropy' = 0
    /\ exception' = "None"
    /\ UNCHANGED diff
    /\ UNCHANGED <<threadVars, apiVars, cliVars, repoVars, otherVars>>

Next ==
    \/ CallGetLocChanged
    \/ CallCalculateNormalizedEntropy
    \/ CallCalculateAggregateEntropy
    \/ Return

Spec == Init /\ [][Next]_vars

\* the calls on the test repositories of tests/data/almanack
InitFixture ==
    /\ diff \in FixtureDiffs
    /\ NoCall
    /\ NoThread /\ ApiIdle /\ CliIdle /\ RepoIdle
    /\ OthersIdle

SpecFixture == InitFixture /\ [][Next]_vars

\* ------------------------------------------------------------------ get_api_data

\* for attempt in range(1, max_retries + 1)
CallGetApiData ==
    /\ api_pc = "idle"
    /\ api_pc' = "request"
    /\ attempt' = 1
    /\ UNCHANGED <<response, backoff, api_result>>
    /\ UNCHANGED <<entropyVars, threadVars, cliVars, repoVars, otherVars>>

\* the request succeeds: return response.json()
RequestReturnsJson ==
    /\ api_pc = "request"
    /\ \E r \in Responses :
        /\ r.exc = "None" /\ ~RaisesHTTPError(r)
        /\ response' = r
    /\ api_result' = Returned("json")
    /\ api_pc' = "returned"
    /\ UNCHANGED <<attempt, backoff>>
    /\ UNCHANGED <<entropyVars, threadVars, cliVars, repoVars, otherVars>>

\* the rate limit error before the last attempt: sleep, then the next attempt
RateLimitRetry ==
    /\ api_pc = "request"
    /\ attempt < MaxRetries
    /\ \E r \in Responses :
        /\ RaisesHTTPError(r) /\ IsRateLimit(r)
        /\ response' = r
    /\ backoff' = Backoff(attempt)
    /\ attempt' = attempt + 1
    /\ UNCHANGED <<api_pc, api_result>>
    /\ UNCHANGED <<entropyVars, threadVars, cliVars, repoVars, otherVars>>

\* the rate limit error at the last attempt: return {}
RateLimitExhausted ==
    /\ api_pc = "request"
    /\ ~(attempt < MaxRetries)
    /\ \E r \in Responses :
        /\ RaisesHTTPError(r) /\ IsRateLimit(r)
        /\ response' = r
    /\ api_result' = Returned("{}")
    /\ api_pc' = "returned"
    /\ UNCHANGED <<attempt, backoff>>
    /\ UNCHANGED <<entropyVars, threadVars, cliVars, repoVars, otherVars>>

\* another HTTP error: it is logged, return {}
OtherHTTPError ==
    /\ api_pc = "request"
    /\ \E r \in Responses :
        /\ RaisesHTTPError(r) /\ ~IsRateLimit(r)
        /\ response' = r
    /\ api_result' = Returned("{}")
    /\ api_pc' = "returned"
    /\ UNCHANGED <<attempt, backoff>>
    /\ UNCHANGED <<entropyVars, threadVars, cliVars, repoVars, otherVars>>

\* requests.get raises a requests.RequestException: it is logged, return {}
RequestError ==
    /\ api_pc = "request"
    /\ \E r \in Responses :
        /\ r.exc # "None"
        /\ response' = r
    /\ api_result' = Returned("{}")
    /\ api_pc' = "returned"
    /\ UNCHANGED <<attempt, backoff>>
    /\ UNCHANGED <<entropyVars, threadVars, cliVars, repoVars, otherVars>>

\* the caller has the result: the locals of the call are gone
ReturnGetApiData ==
    /\ api_pc = "returned"
    /\ api_pc' = "idle"
    /\ attempt' = 0
    /\ response' = NoResponse
    /\ backoff' = 0
    /\ api_result' = NoResult
    /\ UNCHANGED <<entropyVars, threadVars, cliVars, repoVars, otherVars>>

InitApi ==
    /\ diff = <<>> /\ NoCall
    /\ NoThread /\ ApiIdle /\ CliIdle /\ RepoIdle
    /\ OthersIdle

NextApi ==
    \/ CallGetApiData
    \/ RequestReturnsJson
    \/ RateLimitRetry
    \/ RateLimitExhausted
    \/ OtherHTTPError
    \/ RequestError
    \/ ReturnGetApiData

SpecApi == InitApi /\ [][NextApi]_vars

\* ------------------------------------------------------------------ score and commands

CallComputeAlmanackScore ==
    /\ cli_pc = "idle"
    /\ almanack_score' = compute_almanack_score(almanack_table)
    /\ cli_pc' = "compute_almanack_score"
    /\ UNCHANGED <<almanack_table, exit_status>>
    /\ UNCHANGED <<entropyVars, threadVars, apiVars, repoVars, otherVars>>

\* almanack table <repo path>
CliTable ==
    /\ cli_pc = "idle"
    /\ almanack_score' = compute_almanack_score(almanack_table)
    /\ exit_status' = TableExitStatus(almanack_table)
    /\ cli_pc' = "table"
    /\ UNCHANGED almanack_table
    /\ UNCHANGED <<entropyVars, threadVars, apiVars, repoVars, otherVars>>

\* almanack check <repo path>
CliCheck ==
    /\ cli_pc = "idle"
    /\ LET failed_metrics == gather_failed_almanack_metric_checks(almanack_table)
       IN  /\ almanack_score' = failed_metrics.score
           /\ exit_status' = CheckExitStatus(failed_metrics.score)
    /\ cli_pc' = "check"
    /\ UNCHANGED almanack_table
    /\ UNCHANGED <<entropyVars, threadVars, apiVars, repoVars, otherVars>>

\* the function has returned, the process is over
CliReturn ==
    /\ cli_pc # "idle"
    /\ cli_pc' = "idle"
    /\ almanack_score' = compute_almanack_score(<<>>)
    /\ exit_status' = Exit(-1)
    /\ UNCHANGED almanack_table
    /\ UNCHANGED <<entropyVars, threadVars, apiVars, repoVars, otherVars>>

InitCli ==
    /\ almanack_table \in Tables
    /\ NoCommand
    /\ diff = <<>> /\ NoCall
    /\ NoThread /\ ApiIdle /\ RepoIdle
    /\ OthersIdle

NextCli ==
    \/ CallComputeAlmanackScore
    \/ CliTable
    \/ CliCheck
    \/ CliReturn

SpecCli == InitCli /\ [][NextCli]_vars

\* ------------------------------------------------------------------ compute_repo_data

CallComputeRepoData ==
    /\ repo_pc = "idle"
    /\ repo_data' = compute_repo_data(history)
    /\ repo_pc' = "done"
    /\ UNCHANGED history
    /\ UNCHANGED <<entropyVars, threadVars, apiVars, cliVars, otherVars>>

ReturnRepoData ==
    /\ repo_pc = "done"
    /\ repo_pc' = "idle"
    /\ repo_data' = NoRepoData
    /\ UNCHANGED history
    /\ UNCHANGED <<entropyVars, threadVars, apiVars, cliVars, otherVars>>

InitRepo ==
    /\ history \in Histories
    /\ NoRepoCall
    /\ diff = <<>> /\ NoCall
    /\ NoThread /\ ApiIdle /\ CliIdle
    /\ OthersIdle

NextRepo ==
    \/ CallComputeRepoData
    \/ ReturnRepoData

SpecRepo == InitRepo /\ [][NextRepo]_vars

\* ------------------------------------------------------------------ threads

\* thread t calls calculate_aggregate_entropy, which calls
\* calculate_normalized_entropy, which calls get_loc_changed: changes = {}
ThreadCall(t) ==
    /\ frames[t].pc = "idle"
    /\ \E d \in RepoDiffs, names \in RepoFileSets :
        frames' = [frames EXCEPT ![t] =
                       [IdleFrame EXCEPT !.pc = "get_loc_changed",
                                         !.diff = d,
                                         !.file_names = names,
                                         !.concurrent = OtherRunning(frames, t)]]

\* one turn of the loop over the diff
ThreadPatch(t) ==
    LET f == frames[t]
        i == PatchIndex(frames, t)
    IN  /\ f.pc = "get_loc_changed"
        /\ i <= Len(f.diff)
        /\ frames' = [frames EXCEPT ![t] =
               [f EXCEPT !.changes = PatchChanges(Changes(frames, t), f.diff[i],
                                                  f.file_names),
                         !.i = i + 1,
                         !.concurrent = f.concurrent \/ OtherRunning(frames, t)]]

\* get_loc_changed returns; the total and the dict comprehension of
\* calculate_normalized_entropy
ThreadEntropy(t) ==
    LET f == frames[t]
        loc_changes_t == Changes(frames, t)
        total == SumValues(loc_changes_t)
        entropy == EntropyDict(loc_changes_t, total)
    IN  /\ f.pc = "get_loc_changed"
        /\ PatchIndex(frames, t) > Len(f.diff)
        /\ frames' = [frames EXCEPT ![t] =
               [f EXCEPT !.pc = "calculate_normalized_entropy",
                         !.changes = loc_changes_t,
                         !.total_changes = total,
                         !.exc = entropy.exc,
                         !.entropy_calculation =
                             IF entropy.exc = "None" THEN entropy.val
                             ELSE EmptyDict,
                         !.concurrent = f.concurrent \/ OtherRunning(frames, t)]]

\* calculate_normalized_entropy returns; the sum and the division of
\* calculate_aggregate_entropy
ThreadAggregate(t) ==
    LET f == frames[t]
        normalized ==
            NormalizedTotalEntropy(TotalEntropy(f),
                                   NumFiles(f.entropy_calculation, f.file_names))
    IN  /\ f.pc = "calculate_normalized_entropy"
        /\ frames' = [frames EXCEPT ![t] =
               [f EXCEPT !.pc = "done",
                         !.exc = IF f.exc # "None" THEN f.exc ELSE normalized.exc,
                         !.normalized_total_entropy =
                             IF f.exc # "None" THEN 0 ELSE normalized.val,
                         !.concurrent = f.concurrent \/ OtherRunning(frames, t)]]

\* the caller has the result: the locals of the call are gone
ThreadReturn(t) ==
    /\ frames[t].pc = "done"
    /\ frames' = [frames EXCEPT ![t] = IdleFrame]

Call ==
    /\ \E t \in Threads : ThreadCall(t)
    /\ UNCHANGED <<entropyVars, apiVars, cliVars, repoVars, otherVars>>

Patch ==
    /\ \E t \in Threads : ThreadPatch(t)
    /\ UNCHANGED <<entropyVars, apiVars, cliVars, repoVars, otherVars>>

Entropy ==
    /\ \E t \in Threads : ThreadEntropy(t)
    /\ UNCHANGED <<entropyVars, apiVars, cliVars, repoVars, otherVars>>

Aggregate ==
    /\ \E t \in Threads : ThreadAggregate(t)
    /\ UNCHANGED <<entropyVars, apiVars, cliVars, repoVars, otherVars>>

ReturnToCaller ==
    /\ \E t \in Threads : ThreadReturn(t)
    /\ UNCHANGED <<entropyVars, apiVars, cliVars, repoVars, otherVars>>

InitThreads ==
    /\ NoThread
    /\ diff = <<>> /\ NoCall
    /\ ApiIdle /\ CliIdle /\ RepoIdle
    /\ OthersIdle

NextThreads ==
    \/ Call
    \/ Patch
    \/ Entropy
    \/ Aggregate
    \/ ReturnToCaller

SpecThreads == InitThreads /\ [][NextThreads]_vars

\* a response or an exception ends every requests.get (timeout=300), and every
\* time.sleep ends: the turn of the loop that is running is completed
Respond ==
    \/ RequestReturnsJson
    \/ RateLimitRetry
    \/ RateLimitExhausted
    \/ OtherHTTPError
    \/ RequestError

SpecApiFair == InitApi /\ [][NextApi]_vars /\ WF_vars(Respond)

\* ------------------------------------------------------------------ malformed extractor

\* what an extractor that is not get_loc_changed may hand to
\* calculate_normalized_entropy at line 46: a map with counts of any sign
ExtractorOutputs ==
    UNION {[keys -> (-MaxCount)..MaxCount] : keys \in SUBSET PathSet}

\* calculate_normalized_entropy from line 48 on, on the map the extractor
\* has returned
EntropyOfExtractorOutput ==
    /\ pc = "get_loc_changed"
    /\ LET total == SumValues(loc_changes)
           entropy == EntropyDict(loc_changes, total)
       IN  /\ total_changes' = total
           /\ exception' = entropy.exc
           /\ entropy_calculation' =
                  IF entropy.exc = "None" THEN entropy.val ELSE EmptyDict
    /\ pc' = "calculate_normalized_entropy"
    /\ UNCHANGED <<diff, file_names, loc_changes, normalized_total_entropy>>
    /\ UNCHANGED <<threadVars, apiVars, cliVars, repoVars, otherVars>>

\* the result is dropped; the extractor's map is handed over again
DropEntropy ==
    /\ pc = "calculate_normalized_entropy"
    /\ pc' = "get_loc_changed"
    /\ total_changes' = 0
    /\ exception' = "None"
    /\ entropy_calculation' = EmptyDict
    /\ UNCHANGED <<diff, file_names, loc_changes, normalized_total_entropy>>
    /\ UNCHANGED <<threadVars, apiVars, cliVars, repoVars, otherVars>>

InitMalformed ==
    /\ diff = <<>>
    /\ pc = "get_loc_changed"
    /\ file_names = <<>>
    /\ loc_changes \in ExtractorOutputs
    /\ total_changes = 0
    /\ entropy_calculation = EmptyDict
    /\ normalized_total_entropy = 0
    /\ exception = "None"
    /\ NoThread /\ ApiIdle /\ CliIdle /\ RepoIdle
    /\ OthersIdle

NextMalformed ==
    \/ EntropyOfExtractorOutput
    \/ DropEntropy

SpecMalformed == InitMalformed /\ [][NextMalformed]_vars

\* ------------------------------------------------------------------ process_repo_for_analysis

\* temp_dir = tempfile.mkdtemp()
CallProcessRepoForAnalysis ==
    /\ an_pc = "idle"
    /\ temp_dirs' = temp_dirs \cup {AnalysisTempDir}
    /\ an_pc' = "try"
    /\ UNCHANGED <<repo_path, an_result>>
    /\ UNCHANGED <<metricVars, reportVars, queryVars>>

\* clone_repository makes its temporary directory and clones into
\* pathlib.Path(temp_dir) / "repo"
CloneRepository ==
    /\ an_pc = "try"
    /\ temp_dirs' = temp_dirs \cup {CloneTempDir}
    /\ repo_path' = <<CloneTempDir, "repo">>
    /\ an_pc' = "cloned"
    /\ UNCHANGED an_result
    /\ UNCHANGED <<metricVars, reportVars, queryVars>>

\* clone_repository makes its temporary directory, and
\* pygit2.clone_repository raises GitError
CloneRepositoryFails ==
    /\ an_pc = "try"
    /\ temp_dirs' = temp_dirs \cup {CloneTempDir}
    /\ an_result' = AnalysisError("GitError")
    /\ an_pc' = "finally"
    /\ UNCHANGED repo_path
    /\ UNCHANGED <<metricVars, reportVars, queryVars>>

\* the rest of the try statement, and the except clause if it raises
AnalyseClone ==
    /\ an_pc = "cloned"
    /\ \E names \in ListsOf(EditedFiles(diff)) :
        an_result' = AnalysisOfClone(history, diff, names)
    /\ an_pc' = "finally"
    /\ UNCHANGED <<temp_dirs, repo_path>>
    /\ UNCHANGED <<metricVars, reportVars, queryVars>>

\* finally: shutil.rmtree(temp_dir), and the return
AnalysisFinally ==
    /\ an_pc = "finally"
    /\ temp_dirs' = temp_dirs \ {AnalysisTempDir}
    /\ an_pc' = "returned"
    /\ UNCHANGED <<repo_path, an_result>>
    /\ UNCHANGED <<metricVars, reportVars, queryVars>>

\* the repository behind the URL: its commits, and the diff of its first and
\* its most recent commit, which is empty when they are the same commit
InitAnalysis ==
    /\ history \in Histories
    /\ diff \in IF Len(history) = 1 THEN {<<>>} ELSE RepoDiffs \cup {<<>>}
    /\ NoCall /\ NoRepoCall
    /\ NoThread /\ ApiIdle /\ CliIdle
    /\ OthersIdle

NextAnalysis ==
    \/ CallProcessRepoForAnalysis
    \/ CloneRepository
    \/ CloneRepositoryFails
    \/ AnalyseClone
    \/ AnalysisFinally

SpecAnalysis == InitAnalysis /\ [][NextAnalysis]_vars

\* ------------------------------------------------------------------ process_repo_entropy, process_pr_entropy

\* the command is called: the check of the path
CallProcessEntropy ==
    /\ ent_pc = "idle"
    /\ \E command \in {"process_repo_entropy", "process_pr_entropy"} :
        ent_command' = command
    /\ IF PathIsRepository(ent_path)
       THEN ent_pc' = "checked" /\ UNCHANGED ent_exception
       ELSE ent_pc' = "raised" /\ ent_exception' = "FileNotFoundError"
    /\ UNCHANGED <<ent_path, ent_data, ent_printed, head_diff,
                   edited_file_names, agg_entropy, file_entropy>>
    /\ UNCHANGED <<metricVars, analysisVars, queryVars>>

\* pr_data = compute_pr_data(str(repo_path), pr_branch, main_branch)
ComputePrData ==
    /\ ent_pc = "checked" /\ ent_command = "process_pr_entropy"
    /\ \E found \in BOOLEAN, names \in ListsOf(EditedFiles(diff)) :
        ent_data' = compute_pr_data(found, diff, names)
    /\ ent_pc' = "computed"
    /\ UNCHANGED <<ent_command, ent_path, ent_exception, ent_printed,
                   head_diff, edited_file_names, agg_entropy, file_entropy>>
    /\ UNCHANGED <<metricVars, analysisVars, queryVars>>

\* compute_repo_data: get_edited_files(repo, first_commit, most_recent_commit)
GetEditedFiles ==
    /\ ent_pc = "checked" /\ ent_command = "process_repo_entropy"
    /\ \E names \in ListsOf(EditedFiles(diff)) :
        edited_file_names' =
            get_edited_files(<<"repo", "first_commit", "most_recent_commit">>,
                             names).val
    /\ ent_pc' = "get_edited_files"
    /\ UNCHANGED <<ent_command, ent_path, ent_data, ent_exception,
                   ent_printed, head_diff, agg_entropy, file_entropy>>
    /\ UNCHANGED <<metricVars, analysisVars, queryVars>>

\* compute_repo_data: the call of calculate_aggregate_entropy with the ids
\* of the two commits
CallAggregateOfIds ==
    /\ ent_pc = "get_edited_files"
    /\ agg_entropy' =
           calculate_aggregate_entropy(DiffOfCommits(diff, head_diff),
                                       edited_file_names)
               .normalized_total_entropy
    /\ ent_pc' = "calculate_aggregate_entropy"
    /\ UNCHANGED <<ent_command, ent_path, ent_data, ent_exception,
                   ent_printed, head_diff, edited_file_names, file_entropy>>
    /\ UNCHANGED <<metricVars, analysisVars, queryVars>>

\* compute_repo_data: the call of calculate_normalized_entropy with the same
\* ids, and the dictionary returned
CallNormalizedOfIds ==
    /\ ent_pc = "calculate_aggregate_entropy"
    /\ LET entropy ==
               calculate_normalized_entropy(DiffOfCommits(diff, head_diff),
                                            edited_file_names)
                   .entropy_calculation
       IN  /\ file_entropy' = entropy
           /\ ent_data' = RepoEntropyData(agg_entropy, entropy)
    /\ ent_pc' = "computed"
    /\ UNCHANGED <<ent_command, ent_path, ent_exception, ent_printed,
                   head_diff, edited_file_names, agg_entropy>>
    /\ UNCHANGED <<metricVars, analysisVars, queryVars>>

\* while compute_repo_data runs, somebody commits to the repository: HEAD
\* moves, the commits that were there stay
CommitToRepository ==
    /\ ent_pc \in {"get_edited_files", "calculate_aggregate_entropy"}
    /\ head_diff' \in RepoDiffs \ {head_diff}
    /\ UNCHANGED <<ent_command, ent_pc, ent_path, ent_data, ent_exception,
                   ent_printed, edited_file_names, agg_entropy, file_entropy>>
    /\ UNCHANGED <<metricVars, analysisVars, queryVars>>

\* report_content = repo_report(entropy_data) or pr_report(pr_data), and
\* print(report_content)
ReportAndPrint ==
    /\ ent_pc = "computed"
    /\ IF Report(ent_command, ent_data).exc = "None"
       THEN /\ ent_printed' = TRUE
            /\ ent_pc' = "printed"
            /\ UNCHANGED ent_exception
       ELSE /\ ent_exception' = Report(ent_command, ent_data).exc
            /\ ent_pc' = "raised"
            /\ UNCHANGED ent_printed
    /\ UNCHANGED <<ent_command, ent_path, ent_data, head_diff,
                   edited_file_names, agg_entropy, file_entropy>>
    /\ UNCHANGED <<metricVars, analysisVars, queryVars>>

\* the path handed to the command: nothing, a directory that is no
\* repository, or a repository whose two commits differ by `diff`
InitReport ==
    /\ ent_path \in {p \in [exists : BOOLEAN, git : BOOLEAN] :
                        p.git => p.exists}
    /\ diff \in IF ent_path.git THEN Diffs ELSE {<<>>}
    /\ head_diff = diff
    /\ NoCall /\ NoThread /\ ApiIdle /\ CliIdle /\ RepoIdle
    /\ NoOtherCall
    /\ temp_dirs = {}
    /\ remotes = <<>> /\ tree = <<>> /\ github_response = <<>>

NextReport ==
    \/ CallProcessEntropy
    \/ ComputePrData
    \/ GetEditedFiles
    \/ CallAggregateOfIds
    \/ CallNormalizedOfIds
    \/ CommitToRepository
    \/ ReportAndPrint

SpecReport == InitReport /\ [][NextReport]_vars

\* ------------------------------------------------------------------ the queries of a repository

\* remote_url = get_remote_url(repo=repo)
CallGetRemoteUrl ==
    /\ query_pc = "idle"
    /\ remote_url' = get_remote_url(remotes)
    /\ query_pc' = "get_remote_url"
    /\ UNCHANGED <<remotes, tree, read_args, read_result, github_response,
                   gh_workflows_data, build_entries>>
    /\ UNCHANGED <<metricVars, analysisVars, reportVars>>

\* read_file(repo, entry, filepath) with an entry of the tree or None (e is
\* empty), and a path or None (f is empty)
CallReadFile ==
    /\ query_pc = "idle"
    /\ \E e \in {<<>>} \cup DOMAIN tree,
          f \in {<<>>, <<"README">>, <<"README", ".md">>, <<"LICENSE">>,
                 <<"nonexistent">>} :
        LET entry == IF e = <<>> THEN PyNone ELSE Some(e)
            filepath == IF f = <<>> THEN PyNone ELSE Some(f)
        IN  /\ read_args' = [entry |-> entry, filepath |-> filepath]
            /\ read_result' = read_file(tree, entry, filepath)
    /\ query_pc' = "read_file"
    /\ UNCHANGED <<remotes, remote_url, tree, github_response,
                   gh_workflows_data, build_entries>>
    /\ UNCHANGED <<metricVars, analysisVars, reportVars>>

\* compute_repo_data: remote_url, gh_workflows_data and the entries of the
\* dictionary made of it
CallGetGithubBuildMetrics ==
    /\ query_pc = "idle"
    /\ LET data ==
               get_github_build_metrics(get_remote_url(remotes),
                                        github_response)
       IN  /\ remote_url' = get_remote_url(remotes)
           /\ gh_workflows_data' = data
           /\ build_entries' = WorkflowEntries(data)
    /\ query_pc' = "get_github_build_metrics"
    /\ UNCHANGED <<remotes, tree, read_args, read_result, github_response>>
    /\ UNCHANGED <<metricVars, analysisVars, reportVars>>

\* the repository: its remotes, or the tree of its HEAD, or one remote at
\* most and the workflow runs GitHub reports
InitQueries ==
    /\ \/ remotes \in RemoteLists /\ tree = <<>> /\ github_response = <<>>
       \/ remotes = <<>> /\ tree \in Trees /\ github_response = <<>>
       \/ /\ remotes \in {l \in RemoteLists : Len(l) <= 1}
          /\ tree = <<>>
          /\ github_response \in WorkflowRuns
    /\ diff = <<>>
    /\ NoCall /\ NoThread /\ ApiIdle /\ CliIdle /\ RepoIdle
    /\ NoOtherCall
    /\ temp_dirs = {}
    /\ ent_path = [exists |-> FALSE, git |-> FALSE]
    /\ head_diff = <<>>

NextQueries ==
    \/ CallGetRemoteUrl
    \/ CallReadFile
    \/ CallGetGithubBuildMetrics

SpecQueries == InitQueries /\ [][NextQueries]_vars

\* ------------------------------------------------------------------ claims

\* calculate_normalized_entropy has returned, alone or inside
\* calculate_aggregate_entropy
EntropyComputed ==
    pc \in {"calculate_normalized_entropy", "calculate_aggregate_entropy"}

\* the requested file names
Requested == {file_names[i] : i \in DOMAIN file_names}

\* the paths of the new files of the patches of the diff
Touched == {diff[i].new_file_path : i \in DOMAIN diff}

\* the files of the change map with changes
Changed == {f \in DOMAIN loc_changes : loc_changes[f] # 0}

\* the files whose share of the total is strictly between 0 and 1
Sharing == {f \in Changed : loc_changes[f] # SumValues(loc_changes)}

\* C1: when the total of the change map is greater than 0, each file with
\* count c > 0 has the entropy -p * log2(p), p = c / total, not divided by the
\* number of files.
C1_FileEntropyIsShannonTerm ==
    (EntropyComputed /\ SumValues(loc_changes) > 0) =>
        \A f \in Changed :
            LET p == (loc_changes[f] * Scale) \div SumValues(loc_changes)
            IN  /\ f \in DOMAIN entropy_calculation
                /\ entropy_calculation[f] = -FMul(p, Log2(p).val)

\* three files with changes, each with a positive entropy
C1_Witness ==
    /\ pc = "calculate_normalized_entropy"
    /\ Cardinality(Changed) = 3
    /\ \A f \in Changed : entropy_calculation[f] > 0

\* C2: the entropy is 0.0 for every file whose count is 0 and for every file
\* when the total is 0; when every count is 0 the aggregate is 0.0 too.
C2_ZeroCountZeroEntropy ==
    /\ EntropyComputed =>
        \A f \in DOMAIN loc_changes :
            (loc_changes[f] = 0 \/ SumValues(loc_changes) = 0) =>
                /\ exception = "None"
                /\ f \in DOMAIN entropy_calculation
                /\ entropy_calculation[f] = 0
    /\ (pc = "calculate_aggregate_entropy" /\ Changed = {}) =>
        /\ exception = "None"
        /\ normalized_total_entropy = 0

\* the aggregate of a change map of two or more files and of zeros only
C2_Witness ==
    /\ pc = "calculate_aggregate_entropy"
    /\ Cardinality(DOMAIN loc_changes) >= 2
    /\ Changed = {}
    /\ \A f \in DOMAIN loc_changes : entropy_calculation[f] = 0
    /\ normalized_total_entropy = 0

\* C3: the aggregate is the sum of the entropies divided by the number of
\* requested file names, not by the number of keys of the entropy map, and 0.0
\* when no file is requested.
C3_AggregateDividesByRequested ==
    pc = "calculate_aggregate_entropy" =>
        /\ exception = "None"
        /\ normalized_total_entropy =
               IF Len(file_names) = 0 THEN 0
               ELSE SumValues(entropy_calculation) \div Len(file_names)

\* more names requested than the entropy map has keys, and a positive sum
C3_Witness ==
    /\ pc = "calculate_aggregate_entropy"
    /\ Len(file_names) > Cardinality(DOMAIN entropy_calculation)
    /\ SumValues(entropy_calculation) > 0
    /\ normalized_total_entropy > 0

\* C4: no call raises, whatever the change map (empty, zeros only) and the
\* number of requested names; the empty map gives {} and, with no requested
\* name, the aggregate 0.0.
C4_NeverRaises ==
    /\ exception = "None"
    /\ (EntropyComputed /\ DOMAIN loc_changes = {}) =>
        entropy_calculation = EmptyDict
    /\ (pc = "calculate_aggregate_entropy" /\ Len(file_names) = 0) =>
        normalized_total_entropy = 0

\* no file is requested of a diff that touches files: the change map is empty,
\* the entropy map is {} and the aggregate 0.0
C4_Witness ==
    /\ pc = "calculate_aggregate_entropy"
    /\ Len(file_names) = 0
    /\ diff # <<>>
    /\ loc_changes = EmptyDict
    /\ entropy_calculation = EmptyDict
    /\ normalized_total_entropy = 0
    /\ exception = "None"

\* C5: the keys of the entropy map are the keys of the change map the
\* extractor returns: the keys with count 0 are kept, with 0.0, and a requested
\* file the extractor omitted gets no entry.
C5_EntropyKeysAreChangeKeys ==
    EntropyComputed =>
        /\ loc_changes = get_loc_changed(diff, file_names)
        /\ DOMAIN entropy_calculation = DOMAIN loc_changes
        /\ \A f \in DOMAIN loc_changes \ Changed : entropy_calculation[f] = 0
        /\ \A f \in Requested \ DOMAIN loc_changes :
               f \notin DOMAIN entropy_calculation

\* a key with count 0, a key with changes and a requested file without entry
C5_Witness ==
    /\ pc = "calculate_normalized_entropy"
    /\ DOMAIN entropy_calculation \ Changed # {}
    /\ DOMAIN entropy_calculation \cap Changed # {}
    /\ Requested \ DOMAIN entropy_calculation # {}

\* C6, as claimed: every requested file name is a key of the change map, and
\* so of the entropy map.
C6_EveryRequestedIsKey ==
    /\ pc # "idle" => Requested \subseteq DOMAIN loc_changes
    /\ EntropyComputed => Requested \subseteq DOMAIN entropy_calculation

\* C6, amended: the keys of the change map, and so of the entropy map, are the
\* requested file names that are the path of the new file of a patch of the
\* diff; a requested file the diff does not touch has no entry; a key with
\* count 0 has the entropy 0.0.
C6_RequestedAndTouchedAreKeys ==
    /\ pc # "idle" => DOMAIN loc_changes = Requested \cap Touched
    /\ EntropyComputed =>
        /\ DOMAIN entropy_calculation = Requested \cap Touched
        /\ \A f \in DOMAIN entropy_calculation :
               loc_changes[f] = 0 => entropy_calculation[f] = 0

\* get_loc_changed has returned: a requested file is a key, another requested
\* file is not, and the diff touches a file nobody requested
C6_Witness ==
    /\ pc = "get_loc_changed"
    /\ Requested \cap DOMAIN loc_changes # {}
    /\ Requested \ DOMAIN loc_changes # {}
    /\ Touched \ Requested # {}

\* C7: every entropy is >= 0, and is 0 exactly when the share of the file in
\* the total is 0 or 1.
C7_EntropyZeroIffShareZeroOrOne ==
    EntropyComputed =>
        \A f \in DOMAIN loc_changes :
            /\ f \in DOMAIN entropy_calculation
            /\ entropy_calculation[f] >= 0
            /\ entropy_calculation[f] = 0 <=>
                   \/ loc_changes[f] = 0
                   \/ loc_changes[f] = SumValues(loc_changes)

\* a file with the share 0 beside two files with shares between 0 and 1
C7_Witness ==
    /\ pc = "calculate_normalized_entropy"
    /\ Cardinality(Sharing) = 2
    /\ \E f \in DOMAIN entropy_calculation :
           loc_changes[f] = 0 /\ entropy_calculation[f] = 0
    /\ \A f \in Sharing : entropy_calculation[f] > 0

\* C8: every entropy is in [0, 1].
C8_EntropyInUnitRange ==
    EntropyComputed =>
        \A f \in DOMAIN loc_changes :
            /\ f \in DOMAIN entropy_calculation
            /\ 0 <= entropy_calculation[f]
            /\ entropy_calculation[f] <= Scale

\* three files with equal shares: the entropies sum to more than 1
C8_Witness ==
    /\ pc = "calculate_normalized_entropy"
    /\ Cardinality(Changed) = 3
    /\ \A f, g \in Changed : loc_changes[f] = loc_changes[g]
    /\ SumValues(entropy_calculation) > Scale

\* C9, as claimed: the aggregate is >= 0, and is 0.0 exactly when no file is
\* requested or the total of the changes is 0.
C9_AggregateZeroIffNoChanges ==
    pc = "calculate_aggregate_entropy" =>
        /\ normalized_total_entropy >= 0
        /\ normalized_total_entropy = 0 <=>
               (Len(file_names) = 0 \/ SumValues(loc_changes) = 0)

\* C9, amended: the aggregate is >= 0, and is 0.0 exactly when no file is
\* requested or no file has a share strictly between 0 and 1 (no changes at
\* all, or all the changes in one file).
C9_AggregateZeroIffNoSharing ==
    pc = "calculate_aggregate_entropy" =>
        /\ exception = "None"
        /\ normalized_total_entropy >= 0
        /\ normalized_total_entropy = 0 <=>
               (Len(file_names) = 0 \/ Sharing = {})

\* all the changes are in one file: the aggregate is 0.0
C9_Witness ==
    /\ pc = "calculate_aggregate_entropy"
    /\ Len(file_names) > 1
    /\ Cardinality(Changed) = 1
    /\ Cardinality(DOMAIN loc_changes) > 1
    /\ normalized_total_entropy = 0

\* C10: the aggregate is > 0 when at least two files of the change map have
\* changes and at least one file is requested.
C10_AggregatePositive ==
    (/\ pc = "calculate_aggregate_entropy"
     /\ Cardinality(Changed) >= 2
     /\ Len(file_names) >= 1) =>
        /\ exception = "None"
        /\ normalized_total_entropy > 0

\* two files with changes among three requested
C10_Witness ==
    /\ pc = "calculate_aggregate_entropy"
    /\ Cardinality(Changed) = 2
    /\ Len(file_names) = 3
    /\ normalized_total_entropy > 0

\* C12: when the change map has one key, with a positive count, the entropy of
\* that file is 0.0 and the aggregate is 0.0.
C12_SingleFileZeroEntropy ==
    (/\ EntropyComputed
     /\ Cardinality(DOMAIN loc_changes) = 1
     /\ Changed = DOMAIN loc_changes) =>
        /\ exception = "None"
        /\ DOMAIN entropy_calculation = DOMAIN loc_changes
        /\ \A f \in DOMAIN loc_changes : entropy_calculation[f] = 0
        /\ pc = "calculate_aggregate_entropy" => normalized_total_entropy = 0

\* one requested file holds all the changes of the diff, two lines
C12_Witness ==
    /\ pc = "calculate_aggregate_entropy"
    /\ Len(file_names) = 1
    /\ \E f \in DOMAIN loc_changes :
           /\ DOMAIN loc_changes = {f}
           /\ loc_changes[f] = 2
           /\ entropy_calculation[f] = 0
    /\ normalized_total_entropy = 0

\* C13: when the change map has two keys with equal positive counts, the
\* entropy of each file is exactly 0.5, and the aggregate with two requested
\* names is exactly 0.5.
C13_EqualPairHalf ==
    (/\ EntropyComputed
     /\ Cardinality(DOMAIN loc_changes) = 2
     /\ Changed = DOMAIN loc_changes
     /\ \A f, g \in DOMAIN loc_changes : loc_changes[f] = loc_changes[g]) =>
        /\ exception = "None"
        /\ \A f \in DOMAIN loc_changes : 2 * entropy_calculation[f] = Scale
        /\ (pc = "calculate_aggregate_entropy" /\ Len(file_names) = 2) =>
               2 * normalized_total_entropy = Scale

\* two requested files with two changed lines each
C13_Witness ==
    /\ pc = "calculate_aggregate_entropy"
    /\ Len(file_names) = 2
    /\ Cardinality(DOMAIN loc_changes) = 2
    /\ \A f \in DOMAIN loc_changes :
           loc_changes[f] = 2 /\ 2 * entropy_calculation[f] = Scale
    /\ 2 * normalized_total_entropy = Scale

\* the lines of the hunks of the patch whose origin is one of `origins`
OriginLines(patch, origins) ==
    UNION {{<<h, l>> : l \in {k \in DOMAIN patch.hunks[h] :
                                 patch.hunks[h][k] \in origins}}
           : h \in DOMAIN patch.hunks}

ConcentratedAggregates ==
    {calculate_aggregate_entropy(d, <<d[1].new_file_path>>).normalized_total_entropy
        : d \in {x \in FixtureDiffs : Len(x) = 1}}

\* C11: the aggregate of the change set {f1: 20, f2: 10, f3: 5} with three
\* files requested is strictly greater than the aggregate of {f1: 5} with one
\* file requested; more generally the aggregate of a change set spread over
\* two or more files is strictly greater than the aggregate of every change
\* set concentrated in one file.
C11_SpreadAboveConcentrated ==
    pc = "calculate_aggregate_entropy" =>
        /\ (diff = ThreeFileRepoDiff /\ file_names = Paths) =>
               /\ exception = "None"
               /\ normalized_total_entropy >
                      calculate_aggregate_entropy(OneFileRepoDiff, <<Paths[1]>>)
                          .normalized_total_entropy
        /\ (Cardinality(Changed) >= 2 /\ Len(file_names) >= 1) =>
               \A concentrated \in ConcentratedAggregates :
                   normalized_total_entropy > concentrated

\* the aggregate of 3_file_repo, its three files requested
C11_Witness ==
    /\ pc = "calculate_aggregate_entropy"
    /\ diff = ThreeFileRepoDiff
    /\ file_names = Paths
    /\ loc_changes = (Paths[1] :> HighCodeChange @@ Paths[2] :> MediumCodeChange
                       @@ Paths[3] :> LowCodeChange)
    /\ normalized_total_entropy > 0

\* the call failed for another reason than the rate limit
FailedWithoutRateLimit ==
    \/ response.exc # "None"
    \/ RaisesHTTPError(response) /\ ~IsRateLimit(response)

\* C17: get_api_data raises requests.RequestException when the call fails for
\* a reason other than rate limiting: an HTTP error that is no rate limit
\* error, or a connection or timeout error.
C17_RaisesOnOtherFailure ==
    (api_pc = "returned" /\ FailedWithoutRateLimit) =>
        api_result.exc = "RequestException"

\* the entries compute_almanack_score considers, and those that pass
ConsideredEntries ==
    {i \in DOMAIN almanack_table :
        /\ almanack_table[i].result_type = "bool"
        /\ almanack_table[i].sustainability_correlation # 0}

PassingEntries ==
    {i \in ConsideredEntries :
        \/ /\ almanack_table[i].result = "True"
           /\ almanack_table[i].sustainability_correlation = 1
        \/ /\ almanack_table[i].result = "False"
           /\ almanack_table[i].sustainability_correlation = -1}

\* C18: compute_almanack_score considers the entries of type bool with a
\* correlation other than 0; an entry passes when its result is True with the
\* correlation 1 or False with the correlation -1, never when it is None; the
\* numerator is the number of passing entries, the denominator the number of
\* considered entries, the score their quotient, between 0 and 1; the three
\* are None when no entry is considered.
C18_ScoreCountsPassingChecks ==
    cli_pc = "compute_almanack_score" =>
        IF ConsideredEntries = {}
        THEN /\ almanack_score.numerator = PyNone
             /\ almanack_score.denominator = PyNone
             /\ almanack_score.score = PyNone
        ELSE /\ almanack_score.numerator = Some(Cardinality(PassingEntries))
             /\ almanack_score.denominator = Some(Cardinality(ConsideredEntries))
             /\ almanack_score.score =
                    Some((Cardinality(PassingEntries) * Scale)
                             \div Cardinality(ConsideredEntries))
             /\ 0 <= almanack_score.score.val
             /\ almanack_score.score.val <= Scale

\* two considered entries, beside an entry that is not: False with the
\* correlation -1 passes, None with the correlation -1 does not
C18_Witness ==
    /\ cli_pc = "compute_almanack_score"
    /\ \E i, j \in ConsideredEntries :
           /\ almanack_table[i].result = "False"
           /\ almanack_table[i].sustainability_correlation = -1
           /\ almanack_table[j].result = "None"
           /\ almanack_table[j].sustainability_correlation = -1
    /\ almanack_score.numerator = Some(1)
    /\ almanack_score.denominator = Some(2)
    /\ 2 * almanack_score.score.val = Scale

\* the score of the table is 1: every considered check passes
ScoreIsOne ==
    /\ ~almanack_score.score.none
    /\ almanack_score.score.val = Scale

InclusiveDays == (DateOf(history[Len(history)]) - DateOf(history[1])) + 1

\* C20: for every repository with at least one commit, repo-commits is the
\* number of commits, repo-days-of-development the inclusive number of
\* calendar days from the date of the first commit to the date of the most
\* recent commit, at least 1, and repo-commits-per-day their quotient, never a
\* division by zero.
C20_CommitFrequency ==
    repo_pc = "done" =>
        /\ repo_data.exc = "None"
        /\ repo_data.repo_commits = Len(history)
        /\ repo_data.repo_days_of_development = InclusiveDays
        /\ repo_data.repo_days_of_development >= 1
        /\ repo_data.repo_commits_per_day =
               (Len(history) * Scale) \div InclusiveDays

\* the results a call has so far: the entropy map once
\* calculate_normalized_entropy has returned, the aggregate once
\* calculate_aggregate_entropy has
ResultsOf(f) ==
    [exc |-> f.exc,
     entropy_calculation |-> f.entropy_calculation,
     normalized_total_entropy |-> f.normalized_total_entropy]

\* C14: two calls of calculate_normalized_entropy, or of
\* calculate_aggregate_entropy, with identical inputs return identical
\* results, whatever calls were made before or between them.
C14_SameInputsSameResults ==
    \A t, u \in Threads :
        (/\ frames[t].pc = frames[u].pc
         /\ frames[t].pc \in {"calculate_normalized_entropy", "done"}
         /\ frames[t].diff = frames[u].diff
         /\ frames[t].file_names = frames[u].file_names) =>
            ResultsOf(frames[t]) = ResultsOf(frames[u])

\* two calls on 3_file_repo have returned, the one after the other: the same
\* three positive entropies and the same positive aggregate
C14_Witness ==
    \E t, u \in Threads :
        /\ t # u
        /\ frames[t].pc = "done" /\ frames[u].pc = "done"
        /\ ~frames[t].concurrent
        /\ frames[t].diff = ThreeFileRepoDiff /\ frames[u].diff = ThreeFileRepoDiff
        /\ frames[t].file_names = Paths /\ frames[u].file_names = Paths
        /\ \A k \in PathSet : frames[t].entropy_calculation[k] > 0
        /\ frames[t].normalized_total_entropy > 0
        /\ ResultsOf(frames[t]) = ResultsOf(frames[u])

\* C15: in every interleaving of the calls of the threads, on the same or on
\* different inputs, each call returns what it returns when it runs alone.
C15_ConcurrentAsAlone ==
    \A t \in Threads :
        LET f == frames[t]
            alone == calculate_aggregate_entropy(f.diff, f.file_names)
        IN  /\ f.pc \in {"calculate_normalized_entropy", "done"} =>
                /\ f.exc = alone.exc
                /\ f.changes = alone.loc_changes
                /\ f.total_changes = alone.total_changes
                /\ f.entropy_calculation = alone.entropy_calculation
            /\ f.pc = "done" =>
                f.normalized_total_entropy = alone.normalized_total_entropy

\* two calls on different inputs have run at the same time and returned
C15_Witness ==
    \E t, u \in Threads :
        /\ frames[t].pc = "done" /\ frames[u].pc = "done"
        /\ frames[t].concurrent /\ frames[u].concurrent
        /\ frames[t].diff = ThreeFileRepoDiff /\ frames[t].file_names = Paths
        /\ frames[u].diff = OneFileRepoDiff /\ frames[u].file_names = <<Paths[1]>>
        /\ frames[t].normalized_total_entropy > 0
        /\ frames[u].normalized_total_entropy = 0

\* the last response is the rate limit error: 403 with X-RateLimit-Remaining
RateLimited(r) ==
    r.exc = "None" /\ r.status_code = 403 /\ r.rate_limit_header

AnalysisOfCloneReturned == an_pc = "returned" /\ repo_path # <<>>

\* C23: for a repository that clones and has at least one commit,
\* process_repo_for_analysis returns four elements: the aggregate entropy of
\* the files edited between the first and the most recent commit, the dates
\* of the two commits and the whole days between them.
C23_ReturnsFourElements ==
    (AnalysisOfCloneReturned /\ Len(history) >= 1) =>
        /\ Len(an_result) = 4
        /\ \E names \in ListsOf(EditedFiles(diff)) :
            an_result[1] =
                calculate_aggregate_entropy(diff, names).normalized_total_entropy
        /\ an_result[2] = DateOf(history[get_commits(history)[Len(history)]])
        /\ an_result[3] = DateOf(history[get_commits(history)[1]])
        /\ an_result[4] =
               TimeOfExistence(history[get_commits(history)[Len(history)]],
                               history[get_commits(history)[1]])

\* C29: after process_repo_for_analysis has returned, no temporary directory
\* made during the call is left.
C29_NoTempDirLeft ==
    an_pc = "returned" => temp_dirs = {}

\* C21: the dictionary of a successful compute_pr_data has exactly the keys
\* pr_report reads, so process_pr_entropy prints a report for every PR that
\* was computed successfully.
C21_ReportOfEverySuccessfulPr ==
    (/\ ent_command = "process_pr_entropy"
     /\ ent_pc \in {"printed", "raised"}
     /\ ent_data # <<>>
     /\ "error" \notin DOMAIN ent_data) =>
        /\ DOMAIN ent_data =
               {ReportKeys(ent_command)[i] : i \in DOMAIN ReportKeys(ent_command)}
        /\ ent_printed

\* the path handed to the command exists and has a .git entry
PathGood == ent_path.exists /\ ent_path.git

\* C25: when the path does not exist or has no .git entry, both commands
\* raise FileNotFoundError, compute no data and print no report.
C25_FileNotFoundBeforeAnyWork ==
    (ent_pc # "idle" /\ ~PathGood) =>
        /\ ent_pc = "raised"
        /\ ent_exception = "FileNotFoundError"
        /\ ent_data = <<>>
        /\ edited_file_names = <<>> /\ agg_entropy = <<>> /\ file_entropy = <<>>
        /\ ~ent_printed

C25_Witness ==
    /\ ent_pc = "raised"
    /\ ent_command = "process_repo_entropy"
    /\ ent_path.exists /\ ~ent_path.git

\* C30: in the dictionary of compute_repo_data, repo-agg-info-entropy is the
\* sum of the values of repo-file-info-entropy divided by the number of files
\* edited between the first and the most recent commit, and 0.0 when no file
\* was edited.
C30_AggregateIsMeanOfFileEntropies ==
    (ent_command = "process_repo_entropy" /\ ent_data # <<>>) =>
        ent_data["repo-agg-info-entropy"] =
            NormalizedTotalEntropy(
                SumValues(ent_data["repo-file-info-entropy"]),
                Cardinality(EditedFiles(diff))).val

C30_Witness ==
    /\ ent_command = "process_repo_entropy"
    /\ ent_data # <<>>
    /\ head_diff # diff
    /\ ent_data["repo-agg-info-entropy"] > 0
    /\ Cardinality(DOMAIN ent_data["repo-file-info-entropy"]) > 1

\* the remotes with a URL that urlparse gives a scheme of http, https or ssh
\* and a host
WithValidUrl ==
    {i \in DOMAIN remotes :
        /\ remotes[i].url.scheme \in {"http", "https", "ssh"}
        /\ remotes[i].url.netloc # ""}

\* the remote whose URL the claim has returned: upstream, else origin, else
\* the first of the others
Preferred ==
    IF \E i \in WithValidUrl : remotes[i].name = "upstream"
    THEN CHOOSE i \in WithValidUrl : remotes[i].name = "upstream"
    ELSE IF \E i \in WithValidUrl : remotes[i].name = "origin"
    THEN CHOOSE i \in WithValidUrl : remotes[i].name = "origin"
    ELSE CHOOSE i \in WithValidUrl : \A j \in WithValidUrl : i <= j

\* C24, as claimed: the URL of upstream if valid, else of origin, else of the
\* first other remote with a valid URL, else None; and the URL returned never
\* ends in ".git".
C24_NeverEndsInGit ==
    query_pc = "get_remote_url" =>
        IF WithValidUrl = {} THEN remote_url = PyNone
        ELSE /\ ~remote_url.none
             /\ remote_url.val.path = remotes[Preferred].url.path
             /\ remote_url.val.git = 0

\* C24, amended: the remote is chosen as claimed, and the URL returned is
\* the URL of the remote without one ".git" at its end.
C24_OneGitSuffixRemoved ==
    query_pc = "get_remote_url" =>
        IF WithValidUrl = {} THEN remote_url = PyNone
        ELSE LET url == remotes[Preferred].url
             IN  remote_url =
                     Some([url EXCEPT
                              !.git = IF url.git > 0 THEN url.git - 1 ELSE 0])

C24_Witness ==
    /\ query_pc = "get_remote_url"
    /\ \E i \in DOMAIN remotes :
        remotes[i].name = "upstream" /\ i \notin WithValidUrl
    /\ \E i \in WithValidUrl : remotes[i].name = "origin"
    /\ remotes[Preferred].url.git = 1
    /\ remote_url.val.git = 0

\* C22: read_file returns the content as a string, or None; it raises, and
\* then ValueError, only when neither entry nor filepath is given; and
\* reading by the path gives what reading the entry found by find_file gives.
C22_RaisesOnlyWithoutArguments ==
    query_pc = "read_file" =>
        /\ read_result.exc # "None" =>
               /\ read_result.exc = "ValueError"
               /\ read_args.entry.none /\ read_args.filepath.none
        /\ (read_args.entry.none /\ ~read_args.filepath.none) =>
               LET entry == find_file(tree, read_args.filepath.val)
                   by_entry == read_file(tree, entry, PyNone)
               IN  ~entry.none =>
                       /\ read_result.exc = by_entry.exc
                       /\ read_result.exc = "None" =>
                              /\ read_result.val.none = by_entry.val.none
                              /\ ~by_entry.val.none =>
                                     read_result.val.val = by_entry.val.val

\* the successful runs of the response
SuccessfulRuns ==
    Cardinality({i \in DOMAIN github_response : github_response[i] = "success"})

\* C28: in the dictionary of compute_repo_data the succeeding runs are the
\* successful workflow runs, the failing runs the others and the queried
\* total all the runs, so whenever they are not None the succeeding and the
\* failing runs add up to the queried total.
C28_SucceedingPlusFailingIsTotal ==
    (/\ query_pc = "get_github_build_metrics"
     /\ ~build_entries["repo-gh-workflow-queried-total"].none) =>
        LET succeeding == build_entries["repo-gh-workflow-succeeding-runs"].val
            failing == build_entries["repo-gh-workflow-failing-runs"].val
            total == build_entries["repo-gh-workflow-queried-total"].val
        IN  /\ succeeding = SuccessfulRuns
            /\ failing = Len(github_response) - SuccessfulRuns
            /\ total = Len(github_response)
            /\ succeeding + failing = total

=============================================================================
